---- MODULE Spec2Model ----
(***************************************************************************)
(* The slider widget of native/src/widget/slider.rs: construction          *)
(* (Slider::new and the builders), the local State, and the event handler  *)
(* `update` with its inner closure `change`.                               *)
(*                                                                         *)
(* Numbers.  Cursor coordinates and layout bounds are f32 in the source;   *)
(* the model draws them from small integers, on which every f32 and f64    *)
(* operation of the handler is exact except the division by the step,      *)
(* which is followed by round(): Round below rounds the exact quotient,    *)
(* half away from zero, as f64::round does.                                *)
(* The value type T is generic.  Two instances are modelled:               *)
(*   "u8"  - values are the integers 0..255, one model unit is 1, and      *)
(*           T::from_f64 fails outside 0..255 and on NaN;                  *)
(*   "f64" - values are multiples of 2^-53, one model unit is 2^-53, so    *)
(*           that f64::EPSILON = 2^-52 is two units, and T::from_f64       *)
(*           always succeeds.                                              *)
(***************************************************************************)
EXTENDS Integers, Sequences, FiniteSets, TLC

VARIABLES
    slider,   \* the fields of Slider: range, step, value, on_release, orientation
    state,    \* the local State: [is_dragging]
    shell,    \* the messages published to the Shell by the last call of update
    status,   \* the event::Status returned by the last call of update
    input,    \* the event and cursor_position of the last call of update
    before,   \* the value and is_dragging the last call of update started from
    after_press, \* the call before the last one was a press inside the bounds,
                 \* handled while not dragging
    observer, \* what an observer of the slider has seen since construction;
              \* only SpecObserved keeps it
    view      \* the last call of draw, mouse_interaction, width, height or
              \* layout and what it produced; only SpecView makes such calls

vars == <<slider, state, shell, status, input, before, after_press,
          observer, view>>

\* ------------------------------------------------------------------ bounds

\* Rectangle of the layout: origin, length along the value axis, thickness
\* across it.
LayoutX == 1
LayoutY == 1
LayoutLength == 4
LayoutThickness == 1

\* ------------------------------------------------------------ basic types

Orientation == {"Horizontal", "Vertical"}

NumericTypes == {"u8", "f64"}

None == <<>>
Some(v) == <<v>>

Abs(x) == IF x < 0 THEN -x ELSE x

\* f64::round applied to the exact quotient n / d (d # 0): nearest integer,
\* halves away from zero.
RoundPos(n, d) == (2 * n + d) \div (2 * d)
Round(n, d) ==
    LET nn == IF d < 0 THEN -n ELSE n
        dd == Abs(d)
    IN  IF nn >= 0 THEN RoundPos(nn, dd) ELSE -RoundPos(-nn, dd)

\* The values T can hold, in model units.
Representable(T, v) == IF T = "u8" THEN 0 <= v /\ v <= 255 ELSE TRUE

\* f64::EPSILON in model units, rounded down: |a - b| > EPSILON for values
\* that are whole numbers of units.
EpsilonUnits(T) == IF T = "f64" THEN 2 ELSE 0

\* layout.bounds() for a slider of the given orientation.
Bounds(orientation) ==
    IF orientation = "Horizontal"
    THEN [x |-> LayoutX, y |-> LayoutY,
          width |-> LayoutLength, height |-> LayoutThickness]
    ELSE [x |-> LayoutX, y |-> LayoutY,
          width |-> LayoutThickness, height |-> LayoutLength]

\* Rectangle::contains, with both edges of each axis inside.  update only
\* asks it whether a press counts as inside the bounds.
contains(bounds, p) ==
    /\ bounds.x <= p.x /\ p.x <= bounds.x + bounds.width
    /\ bounds.y <= p.y /\ p.y <= bounds.y + bounds.height

\* Cursor positions offered to the handler: along the value axis every grid
\* point from one unit before the bounds to one unit after them; across it
\* one point outside the bounds and one inside.
CursorPositions(orientation) ==
    LET b == Bounds(orientation)
    IN  IF orientation = "Horizontal"
        THEN [x : (b.x - 1) .. (b.x + b.width + 1), y : {b.y - 1, b.y}]
        ELSE [x : {b.x - 1, b.x}, y : (b.y - 1) .. (b.y + b.height + 1)]

\* ------------------------------------------------------------ construction

\* State::new / State::default.
StateNew == [is_dragging |-> FALSE]

\* Mutant of SliderNew: the value is not clamped to the end of the range.
SliderNew_no_upper(T, start, end, value, step, on_release, orientation) ==
    [T |-> T, start |-> start, end |-> end, step |-> step,
     value |-> IF value >= start THEN value ELSE start,
     on_release |-> on_release, orientation |-> orientation,
     width |-> None, height |-> None]

\* Slider::new followed by the builders step, on_release and orientation.
SliderNew(T, start, end, value, step, on_release, orientation) ==
    LET v1 == IF value >= start THEN value ELSE start
        v2 == IF v1 <= end THEN v1 ELSE end
    IN  [T |-> T, start |-> start, end |-> end, step |-> step, value |-> v2,
         on_release |-> on_release, orientation |-> orientation,
         width |-> None, height |-> None]

\* ------------------------------------------------------------- the handler

\* Messages: on_change(v) and the configured on_release message.
OnChange(v) == <<"Changed", v>>
OnRelease == <<"Released">>

cursor_below_bounds(orientation, cursor, bounds) ==
    IF orientation = "Horizontal"
    THEN cursor.x <= bounds.x
    ELSE cursor.y >= bounds.y + bounds.height

\* Mutant of cursor_above_bounds: the far edge itself does not count.
cursor_above_bounds_strict(orientation, cursor, bounds) ==
    IF orientation = "Horizontal"
    THEN cursor.x > bounds.x + bounds.width
    ELSE cursor.y < bounds.y

cursor_above_bounds(orientation, cursor, bounds) ==
    IF orientation = "Horizontal"
    THEN cursor.x >= bounds.x + bounds.width
    ELSE cursor.y <= bounds.y

\* percent as the fraction num / den.
percent(orientation, cursor, bounds) ==
    IF orientation = "Horizontal"
    THEN [num |-> cursor.x - bounds.x, den |-> bounds.width]
    ELSE [num |-> bounds.height - (cursor.y - bounds.y), den |-> bounds.height]

\* Mutant of raw_value: the start of the range is not added.
raw_value_no_start(s, cursor, bounds) ==
    LET p == percent(s.orientation, cursor, bounds)
    IN  IF s.step = 0
        THEN [nan |-> TRUE, num |-> 0]
        ELSE LET steps == Round(p.num * (s.end - s.start), p.den * s.step)
             IN  [nan |-> FALSE, num |-> steps * s.step]

\* steps * step + start, as an f64: NaN when the step is 0 (x / 0 is an
\* infinity or NaN, and infinity * 0 is NaN).
raw_value(s, cursor, bounds) ==
    LET p == percent(s.orientation, cursor, bounds)
    IN  IF s.step = 0
        THEN [nan |-> TRUE, num |-> 0]
        ELSE LET steps == Round(p.num * (s.end - s.start), p.den * s.step)
             IN  [nan |-> FALSE, num |-> steps * s.step + s.start]

\* T::from_f64 of num_traits::FromPrimitive.
from_f64(T, raw) ==
    IF raw.nan \/ ~Representable(T, raw.num) THEN None ELSE Some(raw.num)

\* new_value of the closure `change`; None where the closure returns early.
new_value(s, cursor, bounds) ==
    IF cursor_below_bounds(s.orientation, cursor, bounds) THEN Some(s.start)
    ELSE IF cursor_above_bounds(s.orientation, cursor, bounds) THEN Some(s.end)
    ELSE from_f64(s.T, raw_value(s, cursor, bounds))

\* Mutant of differs: any difference counts, however small.
differs_any(T, value, new) == value # new

\* ((*value).into() - new_value.into()).abs() > f64::EPSILON
differs(T, value, new) == Abs(value - new) > EpsilonUnits(T)

\* Mutant of change: the message is published but the value is not stored.
change_no_store(s, cursor, bounds) ==
    LET nv == new_value(s, cursor, bounds)
    IN  IF nv # None /\ differs(s.T, s.value, nv[1])
        THEN [value |-> s.value, shell |-> <<OnChange(nv[1])>>]
        ELSE [value |-> s.value, shell |-> <<>>]

\* Mutant of change: a value that cannot be converted is replaced by the
\* end of the range.
change_saturate(s, cursor, bounds) ==
    LET nv == new_value(s, cursor, bounds)
        v == IF nv = None THEN s.end ELSE nv[1]
    IN  IF differs(s.T, s.value, v)
        THEN [value |-> v, shell |-> <<OnChange(v)>>]
        ELSE [value |-> s.value, shell |-> <<>>]

\* Mutant of change: the message is published twice.
change_twice(s, cursor, bounds) ==
    LET nv == new_value(s, cursor, bounds)
    IN  IF nv # None /\ differs(s.T, s.value, nv[1])
        THEN [value |-> nv[1], shell |-> <<OnChange(nv[1]), OnChange(nv[1])>>]
        ELSE [value |-> s.value, shell |-> <<>>]

\* The closure `change`: the value and the shell after it has run.
change(s, cursor, bounds) ==
    LET nv == new_value(s, cursor, bounds)
    IN  IF nv = None THEN [value |-> s.value, shell |-> <<>>]
        ELSE IF differs(s.T, s.value, nv[1])
             THEN [value |-> nv[1], shell |-> <<OnChange(nv[1])>>]
             ELSE [value |-> s.value, shell |-> <<>>]

\* What update leaves behind when it falls through to event::Status::Ignored.
ignored(s, st) ==
    [value |-> s.value, is_dragging |-> st.is_dragging,
     shell |-> <<>>, status |-> "Ignored"]

PressEvents == {"ButtonPressedLeft", "FingerPressed"}
ReleaseEvents == {"ButtonReleasedLeft", "FingerLifted", "FingerLost"}
MoveEvents == {"CursorMoved", "FingerMoved"}
OtherEvents == {"ButtonPressedRight", "KeyPressed"}
Events == PressEvents \cup ReleaseEvents \cup MoveEvents \cup OtherEvents

\* Mutant of press_arm: is_dragging is not set.
press_arm_no_drag(cursor, s, st) ==
    LET bounds == Bounds(s.orientation)
    IN  IF contains(bounds, cursor)
        THEN LET c == change(s, cursor, bounds)
             IN  [value |-> c.value, is_dragging |-> st.is_dragging,
                  shell |-> c.shell, status |-> "Captured"]
        ELSE ignored(s, st)

\* Mutant of press_arm: the cursor is not tested against the bounds.
press_arm_anywhere(cursor, s, st) ==
    LET c == change(s, cursor, Bounds(s.orientation))
    IN  [value |-> c.value, is_dragging |-> TRUE,
         shell |-> c.shell, status |-> "Captured"]

\* The arm of ButtonPressed(Left) and FingerPressed.
press_arm(cursor, s, st) ==
    LET bounds == Bounds(s.orientation)
    IN  IF contains(bounds, cursor)
        THEN LET c == change(s, cursor, bounds)
             IN  [value |-> c.value, is_dragging |-> TRUE,
                  shell |-> c.shell, status |-> "Captured"]
        ELSE ignored(s, st)

\* Mutant of release_arm: is_dragging is not cleared.
release_arm_no_reset(s, st) ==
    IF st.is_dragging
    THEN [value |-> s.value, is_dragging |-> st.is_dragging,
          shell |-> IF s.on_release THEN <<OnRelease>> ELSE <<>>,
          status |-> "Captured"]
    ELSE ignored(s, st)

\* Mutant of release_arm: a release message is published whether or not one
\* is configured.
release_arm_eager(s, st) ==
    IF st.is_dragging
    THEN [value |-> s.value, is_dragging |-> FALSE,
          shell |-> <<OnRelease>>, status |-> "Captured"]
    ELSE ignored(s, st)

\* The arm of ButtonReleased(Left), FingerLifted and FingerLost.
release_arm(s, st) ==
    IF st.is_dragging
    THEN [value |-> s.value, is_dragging |-> FALSE,
          shell |-> IF s.on_release THEN <<OnRelease>> ELSE <<>>,
          status |-> "Captured"]
    ELSE ignored(s, st)

\* Mutant of move_arm: only moves inside the bounds are handled.
move_arm_inside_only(cursor, s, st) ==
    IF st.is_dragging /\ contains(Bounds(s.orientation), cursor)
    THEN LET c == change(s, cursor, Bounds(s.orientation))
         IN  [value |-> c.value, is_dragging |-> st.is_dragging,
              shell |-> c.shell, status |-> "Captured"]
    ELSE ignored(s, st)

\* Mutant of move_arm: moves are handled whether or not the slider is being
\* dragged.
move_arm_always(cursor, s, st) ==
    LET c == change(s, cursor, Bounds(s.orientation))
    IN  [value |-> c.value, is_dragging |-> st.is_dragging,
         shell |-> c.shell, status |-> "Captured"]

\* The arm of CursorMoved and FingerMoved.
move_arm(cursor, s, st) ==
    IF st.is_dragging
    THEN LET c == change(s, cursor, Bounds(s.orientation))
         IN  [value |-> c.value, is_dragging |-> st.is_dragging,
              shell |-> c.shell, status |-> "Captured"]
    ELSE ignored(s, st)

\* The match of update: the new value, is_dragging, the shell and the status.
update_result(event, cursor, s, st) ==
    IF event \in PressEvents THEN press_arm(cursor, s, st)
    ELSE IF event \in ReleaseEvents THEN release_arm(s, st)
    ELSE IF event \in MoveEvents THEN move_arm(cursor, s, st)
    ELSE ignored(s, st)

\* Widget::on_event: one call of update on the slider and its State.
update(event, cursor) ==
    LET r == update_result(event, cursor, slider, state)
    IN  /\ slider' = [slider EXCEPT !.value = r.value]
        /\ state' = [is_dragging |-> r.is_dragging]
        /\ shell' = r.shell
        /\ status' = r.status
        /\ input' = [event |-> event, cursor |-> cursor]
        /\ before' = [value |-> slider.value, is_dragging |-> state.is_dragging]
        /\ after_press' = /\ input.event \in PressEvents
                          /\ status = "Captured"
                          /\ ~before.is_dragging

ButtonPressedLeft ==
    /\ \E cursor \in CursorPositions(slider.orientation) : update("ButtonPressedLeft", cursor)
    /\ UNCHANGED <<observer, view>>
FingerPressed ==
    /\ \E cursor \in CursorPositions(slider.orientation) : update("FingerPressed", cursor)
    /\ UNCHANGED <<observer, view>>
ButtonReleasedLeft ==
    /\ \E cursor \in CursorPositions(slider.orientation) : update("ButtonReleasedLeft", cursor)
    /\ UNCHANGED <<observer, view>>
FingerLifted ==
    /\ \E cursor \in CursorPositions(slider.orientation) : update("FingerLifted", cursor)
    /\ UNCHANGED <<observer, view>>
FingerLost ==
    /\ \E cursor \in CursorPositions(slider.orientation) : update("FingerLost", cursor)
    /\ UNCHANGED <<observer, view>>
CursorMoved ==
    /\ \E cursor \in CursorPositions(slider.orientation) : update("CursorMoved", cursor)
    /\ UNCHANGED <<observer, view>>
FingerMoved ==
    /\ \E cursor \in CursorPositions(slider.orientation) : update("FingerMoved", cursor)
    /\ UNCHANGED <<observer, view>>
ButtonPressedRight ==
    /\ \E cursor \in CursorPositions(slider.orientation) : update("ButtonPressedRight", cursor)
    /\ UNCHANGED <<observer, view>>
KeyPressed ==
    /\ \E cursor \in CursorPositions(slider.orientation) : update("KeyPressed", cursor)
    /\ UNCHANGED <<observer, view>>

\* --------------------------------------------------------- specification

\* The observer before anything happened; `on` tells whether it observes.
Observer(on, requested) ==
    [on |-> on, requested |-> requested, last_change |-> None,
     phase |-> 0, from |-> 0, log |-> <<>>]

\* No call of draw, mouse_interaction, width, height or layout yet.
NoView == [op |-> "None"]

\* The sliders the model constructs: type, range and step (start <= end).
\*   u8  [1, 5]     step 1 : the default step, one step per grid unit
\*   u8  [0, 3]     step 4 : the step does not divide the range
\*   u8  [252, 255] step 4 : the same at the top of the type
\*   u8  [5, 5]     step 1 : a single-value range
\*   u8  [0, 4]     step 0 : a zero step
\*   f64 [0, 4]     step 1 : steps below f64::EPSILON (units of 2^-53)
Ranges ==
    { <<"u8", 1, 5, 1>>, <<"u8", 0, 3, 4>>, <<"u8", 252, 255, 4>>,
      <<"u8", 5, 5, 1>>, <<"u8", 0, 4, 0>>, <<"f64", 0, 4, 1>> }

\* The values handed to Slider::new: below, inside and above the range.
InitialValues(r) ==
    { v \in {r[2] - 1, r[2] + 1, r[3] + 1} : Representable(r[1], v) }

Init ==
    /\ \E r \in Ranges, on_release \in BOOLEAN, orientation \in Orientation :
         \E v \in InitialValues(r) :
            slider = SliderNew(r[1], r[2], r[3], v, r[4], on_release, orientation)
    /\ state = StateNew
    /\ shell = <<>>
    /\ status = "None"
    /\ input = [event |-> "None", cursor |-> [x |-> 0, y |-> 0]]
    /\ before = [value |-> slider.value, is_dragging |-> FALSE]
    /\ after_press = FALSE
    /\ observer = Observer(FALSE, None)
    /\ view = NoView

Next ==
    \/ ButtonPressedLeft
    \/ FingerPressed
    \/ ButtonReleasedLeft
    \/ FingerLifted
    \/ FingerLost
    \/ CursorMoved
    \/ FingerMoved
    \/ ButtonPressedRight
    \/ KeyPressed

Spec == Init /\ [][Next]_vars

\* ------------------------------------------- the slider under observation

\* The cursor is at the given fraction num / den of the value axis.
AtFraction(orientation, cursor, num, den) ==
    LET p == percent(orientation, cursor, Bounds(orientation))
    IN  p.num * den = num * p.den

\* What the observer holds after update(event, cursor) has produced r:
\*   requested   - the value handed to Slider::new;
\*   last_change - the value of the last change message published;
\*   phase, from, log - how far the drag sequence "press inside the bounds at
\*     0% while not dragging, move to 50%, release" has come (0: not begun,
\*     3: complete), the stored value it began from and the messages
\*     published by its calls, in order.
Observe(event, cursor, r) ==
    LET o == slider.orientation
        changes == SelectSeq(r.shell, LAMBDA m : m[1] = "Changed")
        begins == /\ event \in PressEvents
                  /\ ~state.is_dragging
                  /\ contains(Bounds(o), cursor)
                  /\ AtFraction(o, cursor, 0, 1)
        moves == /\ observer.phase = 1
                 /\ event \in MoveEvents
                 /\ AtFraction(o, cursor, 1, 2)
        ends == observer.phase = 2 /\ event \in ReleaseEvents
    IN  [on |-> observer.on,
         requested |-> observer.requested,
         last_change |-> IF changes = <<>> THEN observer.last_change
                         ELSE Some(changes[Len(changes)][2]),
         phase |-> IF begins THEN 1 ELSE IF moves THEN 2
                   ELSE IF ends THEN 3 ELSE 0,
         from |-> IF begins THEN slider.value
                  ELSE IF moves \/ ends THEN observer.from ELSE 0,
         log |-> IF begins THEN r.shell
                 ELSE IF moves \/ ends THEN observer.log \o r.shell
                 ELSE <<>>]

\* Widget::on_event, observed.
on_event ==
    /\ \E event \in Events, cursor \in CursorPositions(slider.orientation) :
          /\ update(event, cursor)
          /\ observer' = Observe(event, cursor,
                                 update_result(event, cursor, slider, state))
    /\ UNCHANGED view

\* The sliders put under observation: type, range and step (start <= end).
\*   u8  [0, 100] step 1 : the drag sequence of the specification
\*   f64 [0, 4]   step 1 : steps below f64::EPSILON (units of 2^-53)
\* Each has a release message configured.
ObservedRanges == { <<"u8", 0, 100, 1>>, <<"f64", 0, 4, 1>> }

\* The values handed to Slider::new: below the range, at its start, inside
\* and above it.
RequestedValues(r) ==
    { v \in {r[2] - 1, r[2], r[2] + 1, r[3] + 1} : Representable(r[1], v) }

InitObserved ==
    /\ \E r \in ObservedRanges, orientation \in Orientation :
         \E v \in RequestedValues(r) :
            /\ slider = SliderNew(r[1], r[2], r[3], v, r[4], TRUE, orientation)
            /\ observer = Observer(TRUE, Some(v))
    /\ state = StateNew
    /\ shell = <<>>
    /\ status = "None"
    /\ input = [event |-> "None", cursor |-> [x |-> 0, y |-> 0]]
    /\ before = [value |-> slider.value, is_dragging |-> FALSE]
    /\ after_press = FALSE
    /\ view = NoView

NextObserved == on_event

SpecObserved == InitObserved /\ [][NextObserved]_vars

\* ------------------------------------------------- the last call of update

\* update has been called at least once.
Called == input.event # "None"

\* The slider as the last call found it.
Prior == [slider EXCEPT !.value = before.value]

\* The cursor of the last call was inside the layout bounds.
Inside == contains(Bounds(slider.orientation), input.cursor)

\* The value the last call computes from its cursor position (None when the
\* conversion to T fails).
Computed == new_value(Prior, input.cursor, Bounds(slider.orientation))

\* The last call was one that applies a value: a press inside the bounds or a
\* move while dragging.
Applies ==
    \/ input.event \in PressEvents /\ Inside
    \/ input.event \in MoveEvents /\ before.is_dragging

Changes == SelectSeq(shell, LAMBDA m : m[1] = "Changed")
Releases == SelectSeq(shell, LAMBDA m : m[1] = "Released")

\* The computed value is further than f64::EPSILON from the value before.
FarFromBefore ==
    Computed # None /\ Abs(Computed[1] - before.value) > EpsilonUnits(slider.T)

\* Value application as section 4.3 of the specification and the closure
\* `change` have it: a computed value further than f64::EPSILON from the
\* stored one is stored and published, anything else leaves both alone.
ValueApplied ==
    IF FarFromBefore
    THEN slider.value = Computed[1] /\ shell = <<OnChange(Computed[1])>>
    ELSE slider.value = before.value /\ shell = <<>>

\* The last call returned Ignored, published nothing and changed nothing.
IgnoredUnchanged ==
    /\ status = "Ignored"
    /\ shell = <<>>
    /\ slider.value = before.value
    /\ state.is_dragging = before.is_dragging

\* ------------------------------------------------------------------ claims

\* C1: after construction and after any sequence of events the stored value
\* lies within [range.start, range.end].
C1_ValueInRange ==
    slider.start <= slider.value /\ slider.value <= slider.end

\* C2: the initial state is Idle, and a primary-button-down or touch-press
\* inside the bounds while Idle applies the value computed from the cursor,
\* sets is_dragging and returns Captured.
C2_PressInsideWhileIdle ==
    /\ ~Called => ~state.is_dragging
    /\ (input.event \in PressEvents /\ ~before.is_dragging /\ Inside) =>
          /\ status = "Captured"
          /\ state.is_dragging
          /\ ValueApplied

C2_Witness ==
    /\ input.event \in PressEvents /\ ~before.is_dragging /\ Inside
    /\ state.is_dragging
    /\ shell # <<>>

\* C3: a primary-button-down or touch-press outside the bounds returns
\* Ignored, publishes nothing and leaves is_dragging and the value unchanged.
C3_PressOutsideIgnored ==
    (input.event \in PressEvents /\ ~Inside) => IgnoredUnchanged

C3_Witness ==
    /\ input.event \in PressEvents /\ ~Inside
    /\ status = "Ignored"
    /\ FarFromBefore

\* C4: while Dragging every cursor-moved or touch-moved event, inside or
\* outside the bounds, applies the value computed from the cursor, leaves
\* is_dragging true and returns Captured.
C4_MoveWhileDragging ==
    (input.event \in MoveEvents /\ before.is_dragging) =>
        /\ status = "Captured"
        /\ state.is_dragging
        /\ ValueApplied

C4_Witness ==
    /\ input.event \in MoveEvents /\ before.is_dragging /\ ~Inside
    /\ status = "Captured"
    /\ shell # <<>>

\* C5: while Dragging every primary-button-up, touch-lifted or touch-lost
\* event clears is_dragging, returns Captured, publishes the release message
\* exactly once when one is configured and nothing otherwise, and leaves the
\* value unchanged.
C5_ReleaseWhileDragging ==
    (input.event \in ReleaseEvents /\ before.is_dragging) =>
        /\ status = "Captured"
        /\ ~state.is_dragging
        /\ shell = (IF slider.on_release THEN <<OnRelease>> ELSE <<>>)
        /\ slider.value = before.value

C5_Witness ==
    /\ input.event \in ReleaseEvents /\ before.is_dragging /\ ~Inside
    /\ slider.on_release
    /\ shell = <<OnRelease>>

\* C6 as stated: every call that is not a press while Idle, a move while
\* Dragging or a release while Dragging returns Ignored, publishes nothing
\* and changes nothing.
C6_OnlyListedTransitions ==
    ( /\ Called
      /\ ~(input.event \in PressEvents /\ ~before.is_dragging)
      /\ ~(input.event \in MoveEvents /\ before.is_dragging)
      /\ ~(input.event \in ReleaseEvents /\ before.is_dragging) )
    => IgnoredUnchanged

\* C6 amended: every call that is not a press, a move while Dragging or a
\* release while Dragging returns Ignored, publishes nothing and changes
\* nothing; a press while already Dragging is handled as while Idle: inside
\* the bounds it is Captured and applies the value, outside it is Ignored.
C6_OnlyHandledEvents ==
    /\ ( /\ Called
         /\ input.event \notin PressEvents
         /\ ~(input.event \in MoveEvents /\ before.is_dragging)
         /\ ~(input.event \in ReleaseEvents /\ before.is_dragging) )
       => IgnoredUnchanged
    /\ (input.event \in PressEvents /\ before.is_dragging) =>
          IF Inside
          THEN status = "Captured" /\ state.is_dragging /\ ValueApplied
          ELSE IgnoredUnchanged

C6_Witness ==
    /\ input.event \in MoveEvents /\ ~before.is_dragging /\ Inside
    /\ FarFromBefore
    /\ status = "Ignored"

\* C7: a press or a move that applies a value publishes the change message
\* if and only if the computed value differs from the stored one by more
\* than f64::EPSILON, the message being on_change of the computed value; so
\* two such calls in a row with the same cursor position publish no change
\* message in the second.
C7_ChangeIffDiffers ==
    /\ [](Applies =>
            /\ (Changes # <<>>) <=> FarFromBefore
            /\ \A i \in 1 .. Len(Changes) : Changes[i] = OnChange(Computed[1]))
    /\ [][(Applies /\ Applies' /\ input'.cursor = input.cursor)
            => Changes' = <<>>]_vars

\* A value was computed that differs from the stored one, but by no more
\* than f64::EPSILON, and one further away was published.
C7_Witness ==
    /\ Applies
    /\ slider.T = "f64"
    /\ Changes = <<OnChange(Computed[1])>>
    /\ Abs(Computed[1] - before.value) = EpsilonUnits("f64") + 1

\* C8 as stated: after a press inside the bounds or a move while Dragging
\* whose conversion succeeds, the stored value equals the computed value.
C8_StoredEqualsComputed ==
    (Applies /\ Computed # None) => slider.value = Computed[1]

\* C8 amended: after such a call the stored value equals the computed value
\* when the call published a change message, and is the value from before
\* the call when it published none.
C8_StoredIffPublished ==
    (Applies /\ Computed # None) =>
        IF Changes # <<>>
        THEN slider.value = Computed[1]
        ELSE slider.value = before.value

C8_Witness ==
    /\ Applies /\ Computed # None
    /\ Changes = <<>>
    /\ slider.value # Computed[1]

\* C9: a single call of update publishes at most one change message and at
\* most one release message.
C9_AtMostOneOfEach ==
    Len(Changes) <= 1 /\ Len(Releases) <= 1

C9_Witness ==
    Len(Changes) = 1 /\ Len(shell) = 1

\* C10: from Idle, a press inside the bounds followed at once by a release:
\* the press publishes at most one change message, and only when the value
\* it computes differs from the stored one; the release publishes exactly the
\* release message when one is configured and nothing otherwise; the slider
\* ends Idle.
C10_PressThenRelease ==
    [][ ( /\ input.event \in PressEvents /\ Inside /\ ~before.is_dragging
          /\ input'.event \in ReleaseEvents )
        => /\ Len(shell) <= 1
           /\ Releases = <<>>
           /\ (Changes # <<>> =>
                 Computed # None /\ Computed[1] # before.value)
           /\ shell' = (IF slider.on_release THEN <<OnRelease>> ELSE <<>>)
           /\ status' = "Captured"
           /\ ~state'.is_dragging ]_vars

C10_Witness ==
    /\ after_press
    /\ input.event \in ReleaseEvents
    /\ slider.on_release
    /\ shell = <<OnRelease>>
    /\ ~state.is_dragging


\* --------------------------------------------- sizing, drawing, the cursor

\* Length::Fill, Length::Shrink and Length::Units(n).
Fill == <<"Fill">>
Shrink == <<"Shrink">>
Units(n) == <<"Units", n>>

\* Orientation::DEFAULT_HEIGHT and Orientation::DEFAULT_WIDTH.
DEFAULT_HEIGHT == Units(22)
DEFAULT_WIDTH == Units(22)

default_height(orientation) ==
    IF orientation = "Horizontal" THEN DEFAULT_HEIGHT ELSE Fill

default_width(orientation) ==
    IF orientation = "Horizontal" THEN Fill ELSE DEFAULT_WIDTH

\* Option::unwrap_or.
unwrap_or(option, default) == IF option = None THEN default ELSE option[1]

\* Mutant of widget_width: the hint is the length layout uses.
widget_width_as_layout(s) == unwrap_or(s.width, default_width(s.orientation))

\* Widget::width.
widget_width(s) ==
    IF s.orientation = "Horizontal" THEN unwrap_or(s.width, Fill) ELSE Shrink

\* Widget::height.
widget_height(s) ==
    IF s.orientation = "Horizontal" THEN Shrink ELSE unwrap_or(s.height, Fill)

\* Widget::layout: the width and the height it hands to the limits.
layout_lengths(s) ==
    [width |-> unwrap_or(s.width, default_width(s.orientation)),
     height |-> unwrap_or(s.height, default_height(s.orientation))]

\* The builders width and height of Slider.
with_width(s, length) == [s EXCEPT !.width = Some(length)]
with_height(s, length) == [s EXCEPT !.height = Some(length)]

\* The style draw asks the style sheet for.
draw_style(bounds, cursor, st) ==
    IF st.is_dragging THEN "dragging"
    ELSE IF contains(bounds, cursor) THEN "hovered"
    ELSE "active"

\* handle_width of draw, from the shape of the handle.
handle_width(shape) ==
    IF shape.shape = "Circle" THEN shape.radius * 2 ELSE shape.width

\* Mutant of handle_offset: a vertical slider is measured from the bottom.
handle_offset_uninverted(s, bounds, hw) ==
    IF s.start >= s.end THEN [num |-> 0, den |-> 1]
    ELSE IF s.orientation = "Horizontal"
    THEN [num |-> 2 * bounds.width * (s.value - s.start)
                      - hw * (s.end - s.start),
          den |-> 2 * (s.end - s.start)]
    ELSE [num |-> 2 * bounds.height * (s.value - s.start)
                      - hw * (s.end - s.start),
          den |-> 2 * (s.end - s.start)]

\* handle_offset of draw as the exact fraction num / den (den # 0):
\* length * (value - a) / (b - a) - handle_width / 2, brought to the
\* denominator 2 * (b - a).
handle_offset(s, bounds, hw) ==
    IF s.start >= s.end THEN [num |-> 0, den |-> 1]
    ELSE IF s.orientation = "Horizontal"
    THEN [num |-> 2 * bounds.width * (s.value - s.start)
                      - hw * (s.end - s.start),
          den |-> 2 * (s.end - s.start)]
    ELSE [num |-> 2 * bounds.height * (s.value - s.end)
                      - hw * (s.start - s.end),
          den |-> 2 * (s.start - s.end)]

\* Mutant of mouse_interaction: hovering is tested before dragging.
mouse_interaction_hover_first(bounds, cursor, st) ==
    IF contains(bounds, cursor) THEN "Grab"
    ELSE IF st.is_dragging THEN "Grabbing"
    ELSE "Idle"

\* mouse_interaction; mouse::Interaction::default() is Idle.
mouse_interaction(bounds, cursor, st) ==
    IF st.is_dragging THEN "Grabbing"
    ELSE IF contains(bounds, cursor) THEN "Grab"
    ELSE "Idle"

\* The layouts draw is given: the one of the event handler and a long one.
LongBounds(orientation) ==
    IF orientation = "Horizontal"
    THEN [x |-> LayoutX, y |-> LayoutY, width |-> 200, height |-> 22]
    ELSE [x |-> LayoutX, y |-> LayoutY, width |-> 22, height |-> 200]

DrawBounds(orientation) == {Bounds(orientation), LongBounds(orientation)}

\* The handle shapes of the style sheet: HandleShape::Circle and
\* HandleShape::Rectangle.
HandleShapes ==
    { [shape |-> "Circle", radius |-> 10], [shape |-> "Rectangle", width |-> 8] }

\* The calls leave the slider, its State and the shell alone.
ViewOnly ==
    UNCHANGED <<slider, state, shell, status, input, before, after_press,
                observer>>

\* Widget::draw.
Draw ==
    /\ \E cursor \in CursorPositions(slider.orientation),
          bounds \in DrawBounds(slider.orientation), shape \in HandleShapes :
          view' = [op |-> "draw", cursor |-> cursor, bounds |-> bounds,
                   style |-> draw_style(bounds, cursor, state),
                   handle_width |-> handle_width(shape),
                   handle_offset |->
                       handle_offset(slider, bounds, handle_width(shape))]
    /\ ViewOnly

\* Widget::mouse_interaction.
MouseInteraction ==
    /\ \E cursor \in CursorPositions(slider.orientation) :
          view' = [op |-> "mouse_interaction", cursor |-> cursor,
                   interaction |->
                       mouse_interaction(Bounds(slider.orientation), cursor,
                                         state)]
    /\ ViewOnly

\* Widget::width, Widget::height and Widget::layout.
Width ==
    /\ view' = [op |-> "width", length |-> widget_width(slider)]
    /\ ViewOnly

Height ==
    /\ view' = [op |-> "height", length |-> widget_height(slider)]
    /\ ViewOnly

Layout ==
    /\ view' = [op |-> "layout", lengths |-> layout_lengths(slider)]
    /\ ViewOnly

\* The sliders shown: type, range and step.
\*   u8 [0, 100] step 1 : the example of the specification
\*   u8 [5, 5]   step 1 : a single-value range
\*   u8 [3, 1]   step 1 : a range whose start is above its end
ViewRanges == { <<"u8", 0, 100, 1>>, <<"u8", 5, 5, 1>>, <<"u8", 3, 1, 1>> }

\* The values handed to Slider::new for them.
ViewValues(r) == {r[2], r[2] + 25, r[3]}

\* The lengths handed to the builders width and height, None for no call.
WidthOverrides == {None, Some(Units(30))}
HeightOverrides == {None, Some(Fill)}

\* A slider as draw, mouse_interaction, width, height and layout may find
\* it: constructed, sized, and being dragged or not.
InitView ==
    /\ \E r \in ViewRanges, orientation \in Orientation,
          w \in WidthOverrides, h \in HeightOverrides :
         \E v \in ViewValues(r) :
            LET s0 == SliderNew(r[1], r[2], r[3], v, r[4], FALSE, orientation)
                s1 == IF w = None THEN s0 ELSE with_width(s0, w[1])
            IN  slider = IF h = None THEN s1 ELSE with_height(s1, h[1])
    /\ state \in [is_dragging : BOOLEAN]
    /\ shell = <<>>
    /\ status = "None"
    /\ input = [event |-> "None", cursor |-> [x |-> 0, y |-> 0]]
    /\ before = [value |-> slider.value, is_dragging |-> state.is_dragging]
    /\ after_press = FALSE
    /\ observer = Observer(FALSE, None)
    /\ view = NoView

NextView ==
    \/ Draw
    \/ MouseInteraction
    \/ Width
    \/ Height
    \/ Layout

SpecView == InitView /\ [][NextView]_vars

\* ---------------------------------------------------------- further claims

\* The slider of the drag sequence: range [0, 100], step 1, with a release
\* message.
IsDragSlider ==
    /\ slider.start = 0 /\ slider.end = 100 /\ slider.step = 1
    /\ slider.on_release

\* C11 as stated: on range [0, 100] with step 1 and a release message, the
\* sequence press inside the bounds at 0%, move to 50%, release publishes
\* change(0), change(50), release in that order and leaves the value 50 and
\* the state Idle.
C11_DragSequence ==
    (IsDragSlider /\ observer.phase = 3) =>
        /\ observer.log = <<OnChange(0), OnChange(50), OnRelease>>
        /\ slider.value = 50
        /\ ~state.is_dragging

\* C11 amended: the same sequence publishes change(0) for the press only
\* when the value stored before the press is not 0, then change(50), then
\* release, and leaves the value 50 and the state Idle.
C11_DragSequenceFrom ==
    (IsDragSlider /\ observer.phase = 3) =>
        /\ observer.log =
              (IF observer.from # 0 THEN <<OnChange(0)>> ELSE <<>>)
                 \o <<OnChange(50), OnRelease>>
        /\ slider.value = 50
        /\ ~state.is_dragging

C11_Witness ==
    /\ IsDragSlider /\ observer.phase = 3
    /\ observer.from # 0
    /\ Len(observer.log) = 3

\* C12: Slider::new clamps the initial value into the range: a value below
\* range.start is stored as range.start, a value above range.end as
\* range.end, and a value inside the range unchanged.
C12_ConstructionClamp ==
    (observer.on /\ ~Called) =>
        LET v == observer.requested[1]
        IN  /\ v < slider.start => slider.value = slider.start
            /\ v > slider.end => slider.value = slider.end
            /\ (slider.start <= v /\ v <= slider.end) => slider.value = v

C12_Witness ==
    /\ observer.on /\ ~Called
    /\ observer.requested[1] > slider.end
    /\ slider.value = slider.end

\* The cursor of the last call is at or before the origin edge of the bounds
\* along the value axis, resp. at or beyond the far edge.
AtOrBeforeOrigin ==
    LET b == Bounds(slider.orientation)
    IN  IF slider.orientation = "Horizontal"
        THEN input.cursor.x <= b.x
        ELSE input.cursor.y >= b.y + b.height

AtOrBeyondFar ==
    LET b == Bounds(slider.orientation)
    IN  IF slider.orientation = "Horizontal"
        THEN input.cursor.x >= b.x + b.width
        ELSE input.cursor.y <= b.y

\* C13: a value computed from a cursor at or before the origin edge (x <=
\* bounds.x, or y >= bounds.y + bounds.height for a vertical slider) is
\* exactly range.start, and one from a cursor at or beyond the far edge is
\* exactly range.end, whatever the step.
C13_EdgesGiveRangeEnds ==
    Applies =>
        /\ AtOrBeforeOrigin => Computed = Some(slider.start)
        /\ AtOrBeyondFar => Computed = Some(slider.end)
        /\ ((AtOrBeforeOrigin \/ AtOrBeyondFar) /\ Changes # <<>>) =>
              slider.value \in {slider.start, slider.end}

C13_Witness ==
    /\ Applies
    /\ AtOrBeyondFar
    /\ input.cursor \in
          {[x |-> Bounds("Horizontal").x + Bounds("Horizontal").width,
            y |-> Bounds("Horizontal").y]}
    /\ slider.step = 4
    /\ Changes = <<OnChange(slider.end)>>

\* C14: when the raw value computed during a press or a move cannot be
\* converted to T, the stored value is unchanged and no change message is
\* published.
C14_FailedConversionIsNoOp ==
    (Applies /\ Computed = None) =>
        /\ slider.value = before.value
        /\ shell = <<>>

C14_Witness ==
    /\ Applies /\ Computed = None
    /\ slider.step # 0
    /\ status = "Captured"

\* C15: with range.start = range.end every computed value is that single
\* value, the stored value never leaves it and no change message is ever
\* published.
C15_SingleValueRange ==
    slider.start = slider.end =>
        /\ Applies => Computed = Some(slider.start)
        /\ slider.value = slider.start
        /\ Changes = <<>>

C15_Witness ==
    /\ slider.start = slider.end
    /\ Applies
    /\ ~AtOrBeforeOrigin /\ ~AtOrBeyondFar
    /\ slider.value = slider.start

\* The last call of draw: the length of its bounds along the value axis.
DrawnLength ==
    IF slider.orientation = "Horizontal" THEN view.bounds.width
    ELSE view.bounds.height

\* num / den = a / b, for fractions with non-zero denominators.
SameFraction(f, a, b) == f.num * b = a * f.den

\* C16: the handle offset computed by draw is 0 whenever start >= end;
\* otherwise, horizontally, it is width * (value - start) / (end - start)
\* - handle_width / 2 (range [0, 100], value 25, width 200 and handle width
\* 20 give 40), and vertically the same interpolation measured from the top
\* edge, height * (end - value) / (end - start) - handle_width / 2, so that
\* value = end gives -handle_width / 2.
C16_HandleOffset ==
    view.op = "draw" =>
        LET off == view.handle_offset
            hw == view.handle_width
            span == slider.end - slider.start
        IN  /\ slider.start >= slider.end => off.num = 0
            /\ (slider.start < slider.end
                    /\ slider.orientation = "Horizontal") =>
                  SameFraction(off,
                      2 * DrawnLength * (slider.value - slider.start)
                          - hw * span,
                      2 * span)
            /\ (slider.start < slider.end
                    /\ slider.orientation = "Vertical") =>
                  /\ SameFraction(off,
                         2 * DrawnLength * (slider.end - slider.value)
                             - hw * span,
                         2 * span)
                  /\ slider.value = slider.end => SameFraction(off, -hw, 2)
            /\ (/\ slider.orientation = "Horizontal"
                /\ slider.start = 0 /\ slider.end = 100 /\ slider.value = 25
                /\ DrawnLength = 200 /\ hw = 20) => SameFraction(off, 40, 1)

C16_Witness ==
    /\ view.op = "draw"
    /\ slider.orientation = "Horizontal"
    /\ slider.start = 0 /\ slider.end = 100 /\ slider.value = 25
    /\ view.bounds.width = 200 /\ view.handle_width = 20
    /\ view.handle_offset.num = 40 * view.handle_offset.den

\* C17: the interaction is resolved dragging before hovered before idle from
\* is_dragging and the cursor-in-bounds test alone: Grabbing and the dragging
\* style while dragging, wherever the cursor is; else Grab and the hovered
\* style with the cursor inside the bounds; else the default hint and the
\* active style.  Neither call changes is_dragging or the value or publishes
\* a message.
C17_InteractionPrecedence ==
    /\ [](view.op = "mouse_interaction" =>
            LET hovered == contains(Bounds(slider.orientation), view.cursor)
            IN  /\ state.is_dragging => view.interaction = "Grabbing"
                /\ (~state.is_dragging /\ hovered) => view.interaction = "Grab"
                /\ (~state.is_dragging /\ ~hovered) =>
                      view.interaction = "Idle")
    /\ [](view.op = "draw" =>
            LET hovered == contains(view.bounds, view.cursor)
            IN  /\ state.is_dragging => view.style = "dragging"
                /\ (~state.is_dragging /\ hovered) => view.style = "hovered"
                /\ (~state.is_dragging /\ ~hovered) => view.style = "active")
    /\ [][view'.op \in {"mouse_interaction", "draw"} =>
            /\ state' = state
            /\ slider' = slider
            /\ shell' = shell]_vars

C17_Witness ==
    /\ view.op = "mouse_interaction"
    /\ state.is_dragging
    /\ contains(Bounds(slider.orientation), view.cursor)
    /\ view.interaction = "Grabbing"

\* The length layout resolves for the width and for the height.
LayoutWidth == layout_lengths(slider).width
LayoutHeight == layout_lengths(slider).height

\* C18: width() and height() report Fill along the value axis and 22 units
\* on the cross axis unless the dimension was overridden with the width or
\* height builder, and then the overriding length; the hints agree with the
\* lengths layout resolves.
C18_HintsAgreeWithLayout ==
    /\ view.op = "width" =>
          /\ view.length = unwrap_or(slider.width,
                 IF slider.orientation = "Horizontal" THEN Fill
                 ELSE Units(22))
          /\ view.length = LayoutWidth
    /\ view.op = "height" =>
          /\ view.length = unwrap_or(slider.height,
                 IF slider.orientation = "Vertical" THEN Fill
                 ELSE Units(22))
          /\ view.length = LayoutHeight

\* C18, amended: along the value axis width() and height() report the
\* overriding length, Fill without one, and agree with layout; on the cross
\* axis they report Shrink whatever the builders set, while layout resolves
\* the overriding length, 22 units without one.
C18_HintsAlongValueAxis ==
    /\ view.op = "width" =>
          IF slider.orientation = "Horizontal"
          THEN /\ view.length = unwrap_or(slider.width, Fill)
               /\ view.length = LayoutWidth
          ELSE view.length = Shrink
    /\ view.op = "height" =>
          IF slider.orientation = "Vertical"
          THEN /\ view.length = unwrap_or(slider.height, Fill)
               /\ view.length = LayoutHeight
          ELSE view.length = Shrink
    /\ view.op = "layout" =>
          /\ view.lengths.width = unwrap_or(slider.width,
                 IF slider.orientation = "Horizontal" THEN Fill
                 ELSE Units(22))
          /\ view.lengths.height = unwrap_or(slider.height,
                 IF slider.orientation = "Vertical" THEN Fill
                 ELSE Units(22))

C18_Witness ==
    /\ view.op = "width"
    /\ slider.orientation = "Vertical"
    /\ slider.width = Some(Units(30))
    /\ view.length = Shrink
    /\ LayoutWidth = Units(30)

\* C19: once a change message has been published, the value of the last one
\* published is the stored value; and a call of update changes the stored
\* value exactly when it publishes a change message.
C19_LastChangeIsStored ==
    /\ observer.last_change # None =>
          observer.last_change = Some(slider.value)
    /\ Called => ((slider.value # before.value) <=> (Changes # <<>>))

C19_Witness ==
    /\ observer.last_change = Some(slider.value)
    /\ observer.requested # Some(slider.value)
    /\ Applies
    /\ Changes = <<>>

\* The value computed for the slider of the last call from another cursor
\* position.
ComputedAt(cursor) == new_value(Prior, cursor, Bounds(slider.orientation))

\* The cursor is no further along the direction of growing values than the
\* cursor of the last call: no further right on a horizontal slider, no
\* further up on a vertical one.
NotBeyondInput(cursor) ==
    IF slider.orientation = "Horizontal" THEN cursor.x <= input.cursor.x
    ELSE cursor.y >= input.cursor.y

\* C20: for start < end and step > 0 the value computed from the cursor
\* position is monotone over all cursor positions, those at or beyond the
\* edges included: non-decreasing in x on a horizontal slider, non-increasing
\* in y on a vertical one.
C20_Monotone ==
    (Applies /\ slider.start < slider.end /\ slider.step > 0
        /\ Computed # None) =>
        \A cursor \in CursorPositions(slider.orientation) :
            (NotBeyondInput(cursor) /\ ComputedAt(cursor) # None) =>
                ComputedAt(cursor)[1] <= Computed[1]

\* ------------------------------------------------ drawing between events

\* The coordinate of a point or of the origin of a rectangle along the value
\* axis.
AlongAxis(orientation, p) == IF orientation = "Horizontal" THEN p.x ELSE p.y

\* The handle quad draw fills, along the value axis: it starts at
\* bounds.x + handle_offset.round() (bounds.y + ... on a vertical slider)
\* and is handle_width long.
handle_position(s, bounds, hw) ==
    LET off == handle_offset(s, bounds, hw)
    IN  AlongAxis(s.orientation, bounds) + Round(off.num, off.den)

\* Widget::draw on the layout the events are handled with: the value it is
\* given and the handle it fills.
DrawHandle ==
    /\ \E shape \in HandleShapes :
          LET b == Bounds(slider.orientation)
              hw == handle_width(shape)
          IN  view' = [op |-> "handle", value |-> slider.value,
                       handle_width |-> hw,
                       handle_offset |-> handle_offset(slider, b, hw),
                       position |-> handle_position(slider, b, hw)]
    /\ ViewOnly

\* The sliders drawn between events: type, range and step.
\*   u8 [0, 4] step 1 : a handle position for every grid point of the bounds
\*   u8 [1, 5] step 2 : a start other than 0
\*   u8 [0, 4] step 5 : a step that does not divide end - start
DrawnRanges == { <<"u8", 0, 4, 1>>, <<"u8", 1, 5, 2>>, <<"u8", 0, 4, 5>> }

InitDrawn ==
    /\ \E r \in DrawnRanges, orientation \in Orientation :
         \E v \in InitialValues(r) :
            slider = SliderNew(r[1], r[2], r[3], v, r[4], FALSE, orientation)
    /\ state = StateNew
    /\ shell = <<>>
    /\ status = "None"
    /\ input = [event |-> "None", cursor |-> [x |-> 0, y |-> 0]]
    /\ before = [value |-> slider.value, is_dragging |-> FALSE]
    /\ after_press = FALSE
    /\ observer = Observer(FALSE, None)
    /\ view = NoView

NextDrawn ==
    \/ Next
    \/ DrawHandle

SpecDrawn == InitDrawn /\ [][NextDrawn]_vars

\* The handle on screen shows the value the last call of update found, its
\* offset is a whole number, and the cursor of that call was at the centre
\* of the handle along the value axis.
AtHandleCentre ==
    /\ view.op = "handle"
    /\ view.value = before.value
    /\ view.handle_offset.num % Abs(view.handle_offset.den) = 0
    /\ 2 * AlongAxis(slider.orientation, input.cursor)
          = 2 * view.position + view.handle_width

\* C21: for start < end, step > 0 and a stored value v with v - start a
\* multiple of step, drawn with a whole handle offset, a press or move with
\* the cursor at the centre of the drawn handle along the value axis computes
\* v again, in both orientations: it publishes no change message and leaves
\* the value unchanged.
C21_RoundTrip ==
    (/\ Applies
     /\ AtHandleCentre
     /\ slider.start < slider.end /\ slider.step > 0
     /\ (before.value - slider.start) % slider.step = 0) =>
        /\ Computed = Some(before.value)
        /\ Changes = <<>>
        /\ slider.value = before.value

====
